---- MODULE Spec2Model ----
(***************************************************************************)
(* Model of croncat-indexer-filter (src/lib.rs): a FilterRuntime owns one  *)
(* Lua interpreter; FilterSystem::load compiles the scripts a Config       *)
(* declares and appends one Filter per entry of each script's module       *)
(* table; filter_one / filter evaluate the collected filters on records.   *)
(***************************************************************************)
EXTENDS Integers, Sequences, FiniteSets, TLC

\* ------------------------------------------------------------------ bounds
\* Largest number of script declarations (FilterConfig) in a Config.
MaxDecl == 2
\* Largest number of chunks the interpreter executes over one behaviour.
MaxExecuted == 2
\* Largest batch handed to FilterSystem::filter.
MaxBatch == 2

\* ------------------------------------------------------------- Lua values
LuaNil == [type |-> "nil", b |-> FALSE, fn |-> "", entries |-> <<>>]
LuaBool(v) == [type |-> "boolean", b |-> v, fn |-> "", entries |-> <<>>]
LuaNumber == [type |-> "number", b |-> FALSE, fn |-> "", entries |-> <<>>]
LuaFunction(f) == [type |-> "function", b |-> FALSE, fn |-> f, entries |-> <<>>]
\* A table, given by its (key, value) pairs in construction order.
LuaTable(es) == [type |-> "table", b |-> FALSE, fn |-> "", entries |-> es]

Entry(k, v) == [key |-> k, val |-> v]

\* ---------------------------------------------------------------- records
\* The record type T. Tx1 and Tx2 are the MockTx values of tests::filter_system;
\* Tx3 is a value whose Serialize implementation reports an error.
Tx1 == [from |-> "0xDEADBEEF", to |-> "0xBEEFFEEF", amount |-> 0, serializes |-> TRUE]
Tx2 == [from |-> "0xBEEFFEEF", to |-> "0xDEADDEAD", amount |-> 0, serializes |-> TRUE]
Tx3 == [from |-> "0xFEEDFEED", to |-> "0xBEEFFEEF", amount |-> 0, serializes |-> FALSE]
Records == {Tx1, Tx2, Tx3}

\* ------------------------------------------------------ the script files
\* What a Lua function of the scripts does when called with a converted
\* record: it raises, or returns one Lua value.
\*   is_dead : function(tx) return tx.from == "0xDEADBEEF" end
\*   amount  : function(tx) return tx.amount end              (a number)
\*   memo    : function(tx) return tx.memo end                (nil: no such field)
\*   strict  : function(tx) if tx.to == "0xDEADDEAD" then error("blocked") end end
LuaCall(f, tx) ==
    CASE f = "is_dead" -> [raised |-> FALSE, value |-> LuaBool(tx.from = "0xDEADBEEF")]
      [] f = "amount"  -> [raised |-> FALSE, value |-> LuaNumber]
      [] f = "memo"    -> [raised |-> FALSE, value |-> LuaNil]
      [] f = "strict"  -> IF tx.to = "0xDEADDEAD"
                          THEN [raised |-> TRUE, value |-> LuaNil]
                          ELSE [raised |-> FALSE, value |-> LuaNil]

\* The files on disk: path -> what the chunk does. "syntax" does not compile,
\* "raises" fails while its top-level code runs, "value" evaluates to a value.
ManagerLua == "filters/uni-5-manager.lua"
MultiLua   == "filters/multi.lua"
MixedLua   == "filters/mixed.lua"
SyntaxLua  == "filters/syntax.lua"
RaisesLua  == "filters/raises.lua"
NumberLua  == "filters/number.lua"
MissingLua == "filters/missing.lua"

Disk ==
    (ManagerLua :> [kind |-> "value",
                    value |-> LuaTable(<<Entry("filter", LuaFunction("is_dead"))>>)])
 @@ (MultiLua   :> [kind |-> "value",
                    value |-> LuaTable(<<Entry("amount", LuaFunction("amount")),
                                         Entry("memo", LuaFunction("memo"))>>)])
 @@ (MixedLua   :> [kind |-> "value",
                    value |-> LuaTable(<<Entry("strict", LuaFunction("strict")),
                                         Entry("version", LuaNumber)>>)])
 @@ (SyntaxLua  :> [kind |-> "syntax", value |-> LuaNil])
 @@ (RaisesLua  :> [kind |-> "raises", value |-> LuaNil])
 @@ (NumberLua  :> [kind |-> "value", value |-> LuaNumber])

Paths == DOMAIN Disk \cup {MissingLua}

\* ------------------------------------------------------------ Config
ChainNames == {"uni-5", "juno-1"}
DeclaredNames == {"Testnet Manager"}

FilterConfig == [name : DeclaredNames, script : Paths]

RECURSIVE SeqsUpTo(_, _)
SeqsUpTo(S, n) ==
    IF n = 0 THEN {<<>>}
    ELSE LET shorter == SeqsUpTo(S, n - 1)
         IN  shorter \cup {Append(s, x) : s \in {t \in shorter : Len(t) = n - 1}, x \in S}

RECURSIVE SumLen(_, _)
SumLen(f, D) ==
    IF D = {} THEN 0
    ELSE LET d == CHOOSE x \in D : TRUE IN Len(f[d]) + SumLen(f, D \ {d})

\* Config { chains: HashMap<String, Vec<FilterConfig>> }
Config ==
    {[chains |-> m] :
        m \in {f \in UNION {[D -> SeqsUpTo(FilterConfig, MaxDecl)] : D \in SUBSET ChainNames} :
                 SumLen(f, DOMAIN f) <= MaxDecl}}

NumDecl(c) == SumLen(c.chains, DOMAIN c.chains)

\* The orders in which a HashMap's iterator can yield the keys of D.
RECURSIVE Perms(_)
Perms(D) ==
    IF D = {} THEN {<<>>}
    ELSE UNION {{<<d>> \o p : p \in Perms(D \ {d})} : d \in D}

Reverse(s) == [i \in 1..Len(s) |-> s[Len(s) + 1 - i]]


\* ------------------------------------------------------------- results
\* Result<T, mlua::Error>: Ok carries a value, Err carries the error kind.
NoErr == ""
IoError == "io::Error"
SyntaxError == "SyntaxError"
RuntimeError == "RuntimeError"
FromLuaConversionError == "FromLuaConversionError"
SerializeError == "SerializeError"

\* ---------------------------------------------------------------- Filter
\* Filter { name, filter }: filter is the Lua function the Filter wraps.
Filter_new(name, filter) == [name |-> name, filter |-> filter]

\* Mutant: a conversion that accepts booleans only.
FromLuaBool_strict(v) ==
    IF v.type = "boolean"
    THEN [ok |-> TRUE, b |-> v.b, err |-> NoErr]
    ELSE [ok |-> FALSE, b |-> FALSE, err |-> FromLuaConversionError]

\* The conversion of a predicate's return value to the bool that
\* Filter::filter returns (`let result = self.filter.call(value)?` typed as
\* Result<bool, _>): mlua's bool conversion follows Lua truthiness, so nil
\* and false give false, every other value gives true, and none is an error.
FromLuaBool(v) ==
    [ok |-> TRUE,
     b |-> CASE v.type = "nil" -> FALSE
             [] v.type = "boolean" -> v.b
             [] OTHER -> TRUE,
     err |-> NoErr]

\* Filter::filter(&self, lua, value): convert the record, call the
\* predicate, convert what it returns. `called` says whether the predicate
\* ran, `returned` whether it returned a value, and `raw` is that value.
Filter_filter(f, value) ==
    IF ~value.serializes
    THEN [ok |-> FALSE, b |-> FALSE, err |-> SerializeError,
          called |-> FALSE, returned |-> FALSE, raw |-> LuaNil]
    ELSE LET r == LuaCall(f.filter, value) IN
         IF r.raised
         THEN [ok |-> FALSE, b |-> FALSE, err |-> RuntimeError,
               called |-> TRUE, returned |-> FALSE, raw |-> LuaNil]
         ELSE LET c == FromLuaBool(r.value) IN
              [ok |-> c.ok, b |-> c.ok /\ c.b, err |-> c.err,
               called |-> TRUE, returned |-> TRUE, raw |-> r.value]

\* ---------------------------------------------------------- FilterSystem
\* One entry of the invocation log: Filter::filter was called on the
\* idx-th filter for the pos-th record of the batch.
Invocation(pos, idx, value, r) ==
    [pos |-> pos, idx |-> idx, value |-> value, ok |-> r.ok, b |-> r.b,
     called |-> r.called, returned |-> r.returned, raw |-> r.raw]

\* The loop of FilterSystem::filter_one from the i-th filter on.
RECURSIVE filter_one_loop(_, _, _, _, _, _)
filter_one_loop(fs, value, pos, i, filtered, log) ==
    IF i > Len(fs)
    THEN [ok |-> TRUE, b |-> filtered, err |-> NoErr, calls |-> log]
    ELSE LET r == Filter_filter(fs[i], value)
             log2 == Append(log, Invocation(pos, i, value, r))
         IN  IF ~r.ok
             THEN [ok |-> FALSE, b |-> FALSE, err |-> r.err, calls |-> log2]
             ELSE filter_one_loop(fs, value, pos, i + 1, filtered \/ r.b, log2)

\* Mutant: `filtered = result`, the last filter's decision wins.
RECURSIVE filter_one_last_wins_loop(_, _, _, _, _, _)
filter_one_last_wins_loop(fs, value, pos, i, filtered, log) ==
    IF i > Len(fs)
    THEN [ok |-> TRUE, b |-> filtered, err |-> NoErr, calls |-> log]
    ELSE LET r == Filter_filter(fs[i], value)
             log2 == Append(log, Invocation(pos, i, value, r))
         IN  IF ~r.ok
             THEN [ok |-> FALSE, b |-> FALSE, err |-> r.err, calls |-> log2]
             ELSE filter_one_last_wins_loop(fs, value, pos, i + 1, r.b, log2)

filter_one_last_wins(fs, value, pos) ==
    filter_one_last_wins_loop(fs, value, pos, 1, FALSE, <<>>)

\* Mutant: the loop returns at the first filter that accepts.
RECURSIVE filter_one_short_circuit_loop(_, _, _, _, _)
filter_one_short_circuit_loop(fs, value, pos, i, log) ==
    IF i > Len(fs)
    THEN [ok |-> TRUE, b |-> FALSE, err |-> NoErr, calls |-> log]
    ELSE LET r == Filter_filter(fs[i], value)
             log2 == Append(log, Invocation(pos, i, value, r))
         IN  IF ~r.ok
             THEN [ok |-> FALSE, b |-> FALSE, err |-> r.err, calls |-> log2]
             ELSE IF r.b
                  THEN [ok |-> TRUE, b |-> TRUE, err |-> NoErr, calls |-> log2]
                  ELSE filter_one_short_circuit_loop(fs, value, pos, i + 1, log2)

filter_one_short_circuit(fs, value, pos) ==
    filter_one_short_circuit_loop(fs, value, pos, 1, <<>>)

\* FilterSystem::filter_one(&self, value), called for the pos-th record.
FilterSystem_filter_one(fs, value, pos) ==
    filter_one_loop(fs, value, pos, 1, FALSE, <<>>)

\* The loop of FilterSystem::filter from the i-th value on.
RECURSIVE filter_loop(_, _, _, _, _)
filter_loop(fs, values, i, result, log) ==
    IF i > Len(values)
    THEN [ok |-> TRUE, out |-> result, err |-> NoErr, calls |-> log]
    ELSE LET r == FilterSystem_filter_one(fs, values[i], i)
             log2 == log \o r.calls
         IN  IF ~r.ok
             THEN [ok |-> FALSE, out |-> <<>>, err |-> r.err, calls |-> log2]
             ELSE filter_loop(fs, values, i + 1,
                              IF r.b THEN Append(result, values[i]) ELSE result, log2)

\* Mutant: accepted records are put in front of the result.
RECURSIVE filter_prepends_loop(_, _, _, _, _)
filter_prepends_loop(fs, values, i, result, log) ==
    IF i > Len(values)
    THEN [ok |-> TRUE, out |-> result, err |-> NoErr, calls |-> log]
    ELSE LET r == FilterSystem_filter_one(fs, values[i], i)
             log2 == log \o r.calls
         IN  IF ~r.ok
             THEN [ok |-> FALSE, out |-> <<>>, err |-> r.err, calls |-> log2]
             ELSE filter_prepends_loop(fs, values, i + 1,
                                       IF r.b THEN <<values[i]>> \o result ELSE result, log2)

filter_prepends(fs, values) == filter_prepends_loop(fs, values, 1, <<>>, <<>>)

\* Mutant: a record whose evaluation fails is dropped and the loop goes on.
RECURSIVE filter_skips_failed_loop(_, _, _, _, _)
filter_skips_failed_loop(fs, values, i, result, log) ==
    IF i > Len(values)
    THEN [ok |-> TRUE, out |-> result, err |-> NoErr, calls |-> log]
    ELSE LET r == FilterSystem_filter_one(fs, values[i], i)
             log2 == log \o r.calls
         IN  filter_skips_failed_loop(fs, values, i + 1,
                 IF r.ok /\ r.b THEN Append(result, values[i]) ELSE result, log2)

filter_skips_failed(fs, values) == filter_skips_failed_loop(fs, values, 1, <<>>, <<>>)

\* FilterSystem::filter(&self, values)
FilterSystem_filter(fs, values) == filter_loop(fs, values, 1, <<>>, <<>>)

\* ------------------------------------------------------------------ load
\* FilterSystem::new(runtime)
FilterSystem_new == <<>>

\* The scripts a configuration declares.
Declared(c) ==
    UNION {{c.chains[ch][i].script : i \in 1..Len(c.chains[ch])} : ch \in DOMAIN c.chains}

\* The declared scripts whose table has more than one entry, so that the
\* order of enumeration shows.
Enumerated(c) ==
    {p \in Declared(c) \cap DOMAIN Disk :
        Disk[p].kind = "value" /\ Len(Disk[p].value.entries) > 1}

\* module.pairs(): the entries of a table in the order Lua's `next` yields
\* them, which the language leaves open; rev picks one of the two orders
\* the tables of the scripts can have.
pairs(table, rev) == IF rev THEN Reverse(table.entries) ELSE table.entries

\* Mutant: a pair whose value is no function is skipped.
RECURSIVE load_pairs_skip(_, _, _)
load_pairs_skip(ps, k, fs) ==
    IF k > Len(ps)
    THEN [ok |-> TRUE, err |-> NoErr, filters |-> fs]
    ELSE IF ps[k].val.type # "function"
         THEN load_pairs_skip(ps, k + 1, fs)
         ELSE load_pairs_skip(ps, k + 1, Append(fs, Filter_new(ps[k].key, ps[k].val.fn)))

\* The body of `for pair in module.pairs::<String, mlua::Function>()` from
\* the k-th pair on: a value that is no function makes `pair?` return the
\* conversion error, after the pairs before it were pushed.
RECURSIVE load_pairs(_, _, _)
load_pairs(ps, k, fs) ==
    IF k > Len(ps)
    THEN [ok |-> TRUE, err |-> NoErr, filters |-> fs]
    ELSE IF ps[k].val.type # "function"
         THEN [ok |-> FALSE, err |-> FromLuaConversionError, filters |-> fs]
         ELSE load_pairs(ps, k + 1, Append(fs, Filter_new(ps[k].key, ps[k].val.fn)))

\* Mutant: the filters of a script are named after the declaration.
load_script_declared_name(decl, fs, ex, order) ==
    IF decl.script \notin DOMAIN Disk
    THEN [ok |-> FALSE, err |-> IoError, filters |-> fs, executed |-> ex]
    ELSE LET file == Disk[decl.script] IN
         IF file.kind = "syntax"
         THEN [ok |-> FALSE, err |-> SyntaxError, filters |-> fs, executed |-> ex]
         ELSE LET ex2 == Append(ex, decl.script) IN
              IF file.kind = "raises"
              THEN [ok |-> FALSE, err |-> RuntimeError, filters |-> fs, executed |-> ex2]
              ELSE IF file.value.type # "table"
                   THEN [ok |-> FALSE, err |-> FromLuaConversionError,
                         filters |-> fs, executed |-> ex2]
                   ELSE LET r == load_pairs(pairs(file.value, decl.script \in DOMAIN order
                                                              /\ order[decl.script]), 1, <<>>)
                        IN  [ok |-> r.ok, err |-> r.err,
                             filters |-> fs \o [i \in 1..Len(r.filters) |->
                                                  Filter_new(decl.name, r.filters[i].filter)],
                             executed |-> ex2]

\* One iteration of `for filter in filters`: read the file, evaluate the
\* chunk to a table, push its functions.
load_script(decl, fs, ex, order) ==
    IF decl.script \notin DOMAIN Disk
    THEN [ok |-> FALSE, err |-> IoError, filters |-> fs, executed |-> ex]
    ELSE LET file == Disk[decl.script] IN
         IF file.kind = "syntax"
         THEN [ok |-> FALSE, err |-> SyntaxError, filters |-> fs, executed |-> ex]
         ELSE LET ex2 == Append(ex, decl.script) IN
              IF file.kind = "raises"
              THEN [ok |-> FALSE, err |-> RuntimeError, filters |-> fs, executed |-> ex2]
              ELSE IF file.value.type # "table"
                   THEN [ok |-> FALSE, err |-> FromLuaConversionError,
                         filters |-> fs, executed |-> ex2]
                   ELSE LET r == load_pairs(pairs(file.value, decl.script \in DOMAIN order
                                                              /\ order[decl.script]), 1, fs)
                        IN  [ok |-> r.ok, err |-> r.err, filters |-> r.filters,
                             executed |-> ex2]

\* `for filter in filters` from the j-th declaration of one chain on.
RECURSIVE load_filters(_, _, _, _, _)
load_filters(decls, j, fs, ex, order) ==
    IF j > Len(decls)
    THEN [ok |-> TRUE, err |-> NoErr, filters |-> fs, executed |-> ex]
    ELSE LET r == load_script(decls[j], fs, ex, order) IN
         IF ~r.ok THEN r
         ELSE load_filters(decls, j + 1, r.filters, r.executed, order)

\* `for (_chain, filters) in config.chains` from the i-th chain the
\* HashMap's iterator yields on.
RECURSIVE load_chains(_, _, _, _, _, _)
load_chains(c, chainOrder, i, fs, ex, order) ==
    IF i > Len(chainOrder)
    THEN [ok |-> TRUE, err |-> NoErr, filters |-> fs, executed |-> ex]
    ELSE LET r == load_filters(c.chains[chainOrder[i]], 1, fs, ex, order) IN
         IF ~r.ok THEN r
         ELSE load_chains(c, chainOrder, i + 1, r.filters, r.executed, order)

\* Mutant: load starts from an empty collection.
FilterSystem_load_replaces(fs, ex, c, chainOrder, order) ==
    load_chains(c, chainOrder, 1, <<>>, ex, order)

\* Mutant: on an error the collection is put back as it was.
FilterSystem_load_rollback(fs, ex, c, chainOrder, order) ==
    LET r == load_chains(c, chainOrder, 1, fs, ex, order) IN
    IF r.ok THEN r ELSE [r EXCEPT !.filters = fs]

\* FilterSystem::load(&mut self, config): fs and ex are self.filters and the
\* interpreter's history before the call; the result carries both after it.
FilterSystem_load(fs, ex, c, chainOrder, order) ==
    load_chains(c, chainOrder, 1, fs, ex, order)

\* Mutant: the error of FilterSystem::load is ignored.
FilterRuntime_load_keeps_partial(ex, c, chainOrder, order) ==
    LET r == FilterSystem_load(FilterSystem_new, ex, c, chainOrder, order) IN
    [ok |-> TRUE, err |-> NoErr, system |-> TRUE, filters |-> r.filters,
     executed |-> r.executed]

\* FilterRuntime::load(&self, config): a new system is loaded and returned;
\* on an error of FilterSystem::load the `?` returns it and the system is
\* dropped. `system` says whether a FilterSystem is returned.
FilterRuntime_load(ex, c, chainOrder, order) ==
    LET r == FilterSystem_load(FilterSystem_new, ex, c, chainOrder, order) IN
    IF ~r.ok
    THEN [ok |-> FALSE, err |-> r.err, system |-> FALSE, filters |-> <<>>,
          executed |-> r.executed]
    ELSE [ok |-> TRUE, err |-> NoErr, system |-> TRUE, filters |-> r.filters,
          executed |-> r.executed]


\* ------------------------------------------------------------ the state
VARIABLES
    config,    \* the Config the configuration document deserializes to
    held,      \* the caller owns a FilterSystem
    filters,   \* FilterSystem.filters of that system
    loaded,    \* a load has returned Ok on that system (it is Ready)
    executed,  \* the chunks whose top-level code ran in FilterRuntime.runtime
    op,        \* the last operation called
    args,      \* the records it was called with
    iter,      \* the iteration orders the HashMap and the tables had in it
    ret,       \* what it returned
    calls,     \* the Filter::filter invocations it made, in order
    pre        \* held, filters, loaded and executed before it

vars == <<config, held, filters, loaded, executed, op, args, iter, ret, calls, pre>>

NoIter == [chains |-> <<>>, tables |-> <<>>]
NoRet == [ok |-> TRUE, err |-> NoErr, b |-> FALSE, out |-> <<>>, system |-> FALSE]
Snapshot == [held |-> held, filters |-> filters, loaded |-> loaded, executed |-> executed]

\* FilterRuntime::new(): a fresh interpreter; no FilterSystem exists yet.
Init ==
    /\ config \in Config
    /\ held = FALSE
    /\ filters = <<>>
    /\ loaded = FALSE
    /\ executed = <<>>
    /\ op = "FilterRuntime::new"
    /\ args = <<>>
    /\ iter = NoIter
    /\ ret = NoRet
    /\ calls = <<>>
    /\ pre = [held |-> FALSE, filters |-> <<>>, loaded |-> FALSE, executed |-> <<>>]

\* let mut system = FilterSystem::new(&runtime)
New ==
    /\ held' = TRUE
    /\ filters' = FilterSystem_new
    /\ loaded' = FALSE
    /\ op' = "FilterSystem::new"
    /\ args' = <<>>
    /\ iter' = NoIter
    /\ ret' = [NoRet EXCEPT !.system = TRUE]
    /\ calls' = <<>>
    /\ pre' = Snapshot
    /\ UNCHANGED <<config, executed>>

\* runtime.load(config): on Ok the caller owns the returned system, on Err
\* it gets none and what it owned before is as it was.
RuntimeLoad ==
    /\ Len(executed) + NumDecl(config) <= MaxExecuted
    /\ \E chainOrder \in Perms(DOMAIN config.chains) :
       \E order \in [Enumerated(config) -> BOOLEAN] :
          LET r == FilterRuntime_load(executed, config, chainOrder, order) IN
          /\ held' = IF r.system THEN TRUE ELSE held
          /\ filters' = IF r.system THEN r.filters ELSE filters
          /\ loaded' = IF r.system THEN TRUE ELSE loaded
          /\ executed' = r.executed
          /\ iter' = [chains |-> chainOrder, tables |-> order]
          /\ ret' = [NoRet EXCEPT !.ok = r.ok, !.err = r.err, !.system = r.system]
    /\ op' = "FilterRuntime::load"
    /\ args' = <<>>
    /\ calls' = <<>>
    /\ pre' = Snapshot
    /\ UNCHANGED config

\* system.load(config) on the system the caller owns.
SystemLoad ==
    /\ held
    /\ Len(executed) + NumDecl(config) <= MaxExecuted
    /\ \E chainOrder \in Perms(DOMAIN config.chains) :
       \E order \in [Enumerated(config) -> BOOLEAN] :
          LET r == FilterSystem_load(filters, executed, config, chainOrder, order) IN
          /\ filters' = r.filters
          /\ loaded' = (loaded \/ r.ok)
          /\ executed' = r.executed
          /\ iter' = [chains |-> chainOrder, tables |-> order]
          /\ ret' = [NoRet EXCEPT !.ok = r.ok, !.err = r.err]
    /\ op' = "FilterSystem::load"
    /\ args' = <<>>
    /\ calls' = <<>>
    /\ pre' = Snapshot
    /\ UNCHANGED <<config, held>>

\* system.filter_one(value)
FilterOne ==
    /\ held
    /\ \E value \in Records :
          LET r == FilterSystem_filter_one(filters, value, 1) IN
          /\ args' = <<value>>
          /\ ret' = [NoRet EXCEPT !.ok = r.ok, !.err = r.err, !.b = r.b]
          /\ calls' = r.calls
    /\ op' = "FilterSystem::filter_one"
    /\ iter' = NoIter
    /\ pre' = Snapshot
    /\ UNCHANGED <<config, held, filters, loaded, executed>>

\* system.filter(values)
FilterMany ==
    /\ held
    /\ \E values \in SeqsUpTo(Records, MaxBatch) :
          LET r == FilterSystem_filter(filters, values) IN
          /\ args' = values
          /\ ret' = [NoRet EXCEPT !.ok = r.ok, !.err = r.err, !.out = r.out]
          /\ calls' = r.calls
    /\ op' = "FilterSystem::filter"
    /\ iter' = NoIter
    /\ pre' = Snapshot
    /\ UNCHANGED <<config, held, filters, loaded, executed>>

\* Loading, for every configuration over the files on disk.
NextLoad == New \/ RuntimeLoad \/ SystemLoad

SpecLoad == Init /\ [][NextLoad]_vars

\* Loading and evaluation, for the configurations whose scripts evaluate to
\* a module table (the others add no filter to evaluate) and whose chains
\* declare a script (a chain that declares none is iterated to no effect).
TableScripts == {p \in DOMAIN Disk : Disk[p].kind = "value" /\ Disk[p].value.type = "table"}

InitEval ==
    /\ Init
    /\ Declared(config) \subseteq TableScripts
    /\ \A ch \in DOMAIN config.chains : config.chains[ch] # <<>>

Next == New \/ RuntimeLoad \/ SystemLoad \/ FilterOne \/ FilterMany

Spec == InitEval /\ [][Next]_vars


\* ================================================================ claims
IsFilterOne == op = "FilterSystem::filter_one"
IsFilter == op = "FilterSystem::filter"
IsRuntimeLoad == op = "FilterRuntime::load"
IsSystemLoad == op = "FilterSystem::load"

\* The decision of the i-th filter of the collection on a record.
Decision(i, value) == Filter_filter(filters[i], value)

\* No Filter::filter call on the record fails.
NoneFails(value) == \A i \in 1..Len(filters) : Decision(i, value).ok

\* The first filter whose call on the record fails.
FirstFailingFilter(value) ==
    CHOOSE i \in 1..Len(filters) :
        /\ ~Decision(i, value).ok
        /\ \A j \in 1..(i - 1) : Decision(j, value).ok

\* C1: when no predicate fails on a record, filter_one returns true exactly
\* when at least one filter of the collection decides true for it; with an
\* empty collection it returns false for every record.
C1_OrAggregation ==
    (IsFilterOne /\ NoneFails(args[1])) =>
        /\ ret.ok
        /\ ret.b = (\E i \in 1..Len(filters) : Decision(i, args[1]).b)
        /\ (filters = <<>> => ~ret.b)

\* C1 witness: two or more filters, the first accepts, the last does not,
\* and filter_one returned true.
C1_Witness ==
    /\ IsFilterOne
    /\ Len(filters) >= 2
    /\ NoneFails(args[1])
    /\ Decision(1, args[1]).b
    /\ ~Decision(Len(filters), args[1]).b
    /\ ret.ok /\ ret.b

\* The verdict of filter_one on one record of a batch.
Verdict(value) == FilterSystem_filter_one(filters, value, 1)

Accepted(value) == Verdict(value).b

\* C2: when no predicate fails on a batch, filter returns exactly the
\* subsequence of the inputs that filter_one accepts, in the input order.
C2_Subsequence ==
    (IsFilter /\ \A i \in 1..Len(args) : Verdict(args[i]).ok) =>
        /\ ret.ok
        /\ ret.out = SelectSeq(args, Accepted)

\* C2 witness: a batch of two different records, both accepted and returned.
C2_Witness ==
    /\ IsFilter
    /\ ret.ok
    /\ Len(args) = 2
    /\ args[1] # args[2]
    /\ ret.out = args

\* The first record of the batch whose filter_one fails.
FirstFailingRecord ==
    CHOOSE i \in 1..Len(args) :
        /\ ~Verdict(args[i]).ok
        /\ \A j \in 1..(i - 1) : Verdict(args[j]).ok

\* C3: when a predicate invocation fails in a batch, filter returns the first
\* failure and no output, not even the records accepted before it, and it
\* evaluates no record after the failing one.
C3_BatchFailsWhole ==
    (IsFilter /\ \E i \in 1..Len(args) : ~Verdict(args[i]).ok) =>
        /\ ~ret.ok
        /\ ret.out = <<>>
        /\ ret.err = Verdict(args[FirstFailingRecord]).err
        /\ \A k \in 1..Len(calls) : calls[k].pos <= FirstFailingRecord

\* C3 witness: the first record of the batch is accepted, the second fails.
C3_Witness ==
    /\ IsFilter
    /\ Len(args) = 2
    /\ Verdict(args[1]).ok /\ Verdict(args[1]).b
    /\ ~Verdict(args[2]).ok
    /\ ~ret.ok

\* The filters filter_one invoked, in the order of invocation.
InvokedFilters == [k \in 1..Len(calls) |-> calls[k].idx]

\* C4: filter_one invokes the filters in insertion order without stopping at
\* a true decision: each filter once when none fails; up to and including
\* the first failing one, whose error is returned, when one fails.
C4_NoShortCircuit ==
    IsFilterOne =>
        IF NoneFails(args[1])
        THEN /\ ret.ok
             /\ InvokedFilters = [k \in 1..Len(filters) |-> k]
        ELSE /\ ~ret.ok
             /\ ret.err = Decision(FirstFailingFilter(args[1]), args[1]).err
             /\ InvokedFilters = [k \in 1..FirstFailingFilter(args[1]) |-> k]

\* C4 witness: the first of several filters accepted and the others were
\* invoked all the same.
C4_Witness ==
    /\ IsFilterOne
    /\ Len(filters) >= 2
    /\ ret.ok
    /\ calls[1].b
    /\ Len(calls) = Len(filters)

\* A declared script that fails before it yields a module table.
ScriptFails(p) ==
    \/ p \notin DOMAIN Disk
    \/ Disk[p].kind \in {"syntax", "raises"}
    \/ Disk[p].value.type # "table"

\* What the caller owns is what it owned before the operation.
CallerUnchanged == held = pre.held /\ filters = pre.filters /\ loaded = pre.loaded

\* C5: FilterRuntime::load fails atomically: when a declared script cannot be
\* read, compiled or evaluated to a table, it returns an error and no
\* FilterSystem; an error never comes with a system.
C5_RuntimeLoadAtomic ==
    IsRuntimeLoad =>
        /\ (\E p \in Declared(config) : ScriptFails(p)) => ~ret.ok
        /\ ~ret.ok => (~ret.system /\ CallerUnchanged)

\* C5 witness: a load that failed after a script that evaluates to a module
\* table had been run.
C5_Witness ==
    /\ IsRuntimeLoad
    /\ ~ret.ok /\ ~ret.system
    /\ \E p \in Declared(config) : ScriptFails(p)
    /\ \E i \in (Len(pre.executed) + 1)..Len(executed) : executed[i] \in TableScripts

\* The Filters of one declared script: one per entry of its table, named by
\* the key, in the order the table was enumerated.
FiltersOf(decl, tables) ==
    LET es == pairs(Disk[decl.script].value,
                    decl.script \in DOMAIN tables /\ tables[decl.script])
    IN  [k \in 1..Len(es) |-> Filter_new(es[k].key, es[k].val.fn)]

RECURSIVE FiltersOfChain(_, _)
FiltersOfChain(decls, tables) ==
    IF decls = <<>> THEN <<>>
    ELSE FiltersOf(Head(decls), tables) \o FiltersOfChain(Tail(decls), tables)

RECURSIVE FiltersOfChains(_, _, _)
FiltersOfChains(c, chainOrder, tables) ==
    IF chainOrder = <<>> THEN <<>>
    ELSE FiltersOfChain(c.chains[Head(chainOrder)], tables)
         \o FiltersOfChains(c, Tail(chainOrder), tables)

\* C6: after a successful load into a new system the collection is exactly
\* the filters of the declared scripts: per chain in declaration order, one
\* Filter per table entry of each declaration, named by the entry's key.
C6_LoadedExactly ==
    ((IsRuntimeLoad \/ (IsSystemLoad /\ pre.filters = <<>>)) /\ ret.ok) =>
        filters = FiltersOfChains(config, iter.chains, iter.tables)

\* C6 witness: a chain of two declarations loaded into three filters.
C6_Witness ==
    /\ IsRuntimeLoad
    /\ ret.ok
    /\ \E ch \in DOMAIN config.chains : Len(config.chains[ch]) = 2
    /\ Len(filters) = 3

\* The keys of a script's table whose value is not callable.
NonCallableKeys(p) ==
    {Disk[p].value.entries[k].key : k \in
        {j \in 1..Len(Disk[p].value.entries) : Disk[p].value.entries[j].val.type # "function"}}

\* The callable entries of the declared scripts, as Filters.
RECURSIVE CallableOnly(_)
CallableOnly(fs) ==
    IF fs = <<>> THEN <<>>
    ELSE IF Head(fs).filter = "" THEN CallableOnly(Tail(fs))
         ELSE <<Head(fs)>> \o CallableOnly(Tail(fs))

IsLoad == IsRuntimeLoad \/ IsSystemLoad

\* C7 as stated: a load of scripts that all evaluate to tables succeeds, the
\* entries that are not callable being skipped.
C7_Original ==
    (IsLoad /\ Declared(config) \subseteq TableScripts) =>
        /\ ret.ok
        /\ filters = pre.filters
                     \o CallableOnly(FiltersOfChains(config, iter.chains, iter.tables))

\* C7 amended: a table entry whose value is not callable is not registered,
\* and it is not skipped either: load fails on it with a conversion error.
C7_NonCallableFails ==
    (IsLoad /\ Declared(config) \subseteq TableScripts
            /\ \E p \in Declared(config) : NonCallableKeys(p) # {}) =>
        /\ ~ret.ok
        /\ ret.err = FromLuaConversionError
        /\ \A i \in 1..Len(filters) : \A p \in Declared(config) :
               filters[i].name \notin NonCallableKeys(p)

\* C7 witness: a script with a callable and a non-callable entry failed the
\* load after its callable entry was registered.
C7_Witness ==
    /\ IsSystemLoad
    /\ Declared(config) = {MixedLua}
    /\ ~ret.ok
    /\ ret.err = FromLuaConversionError
    /\ Len(filters) = Len(pre.filters) + 1

IsPrefix(s, t) == Len(s) <= Len(t) /\ SubSeq(t, 1, Len(s)) = s

\* An operation on the system the caller owned before it.
OnSameSystem == IsSystemLoad \/ IsFilterOne \/ IsFilter

\* C8 as stated: once load has returned successfully, no operation on the
\* system changes its collection.
C8_Original == (pre.held /\ pre.loaded /\ OnSameSystem) => filters = pre.filters

\* C8 amended: a Ready system stays Ready; filter_one and filter leave its
\* collection as it is, and FilterSystem::load on it appends after the
\* filters it has, which stay in place.
C8_ReadyAppendOnly ==
    (pre.held /\ pre.loaded /\ OnSameSystem) =>
        /\ held /\ loaded
        /\ IsPrefix(pre.filters, filters)
        /\ (IsFilterOne \/ IsFilter) => filters = pre.filters

\* C8 witness: a second successful load gave a Ready system more filters.
C8_Witness ==
    /\ pre.held /\ pre.loaded
    /\ IsSystemLoad
    /\ ret.ok
    /\ pre.filters # <<>>
    /\ Len(filters) > Len(pre.filters)

Truthy(v) == ~(v.type = "nil" \/ (v.type = "boolean" /\ ~v.b))

\* The predicate of every filter returns a value for the record.
AllReturn(value) ==
    value.serializes /\ \A i \in 1..Len(filters) : ~LuaCall(filters[i].filter, value).raised

RECURSIVE DeclsOf(_, _)
DeclsOf(c, chainOrder) ==
    IF chainOrder = <<>> THEN <<>>
    ELSE c.chains[Head(chainOrder)] \o DeclsOf(c, Tail(chainOrder))

\* A declaration load cannot get past.
DeclFails(decl) == ScriptFails(decl.script) \/ NonCallableKeys(decl.script) # {}

\* The entries of a failing declaration that come before its first
\* non-callable one, as Filters; none if it fails before it yields a table.
RECURSIVE CallablePrefix(_)
CallablePrefix(es) ==
    IF es = <<>> \/ Head(es).val.type # "function" THEN <<>>
    ELSE <<Filter_new(Head(es).key, Head(es).val.fn)>> \o CallablePrefix(Tail(es))

PartialOf(decl, tables) ==
    IF ScriptFails(decl.script) THEN <<>>
    ELSE CallablePrefix(pairs(Disk[decl.script].value,
                              decl.script \in DOMAIN tables /\ tables[decl.script]))

\* Its top-level code ran.
Ran(decl) == decl.script \in DOMAIN Disk /\ Disk[decl.script].kind # "syntax"

\* What a failed load leaves behind: the filters and the executed chunks of
\* the declarations before the first failing one, and what the failing one
\* got to.
RECURSIVE LeftFilters(_, _)
LeftFilters(decls, tables) ==
    IF decls = <<>> THEN <<>>
    ELSE IF DeclFails(Head(decls)) THEN PartialOf(Head(decls), tables)
         ELSE FiltersOf(Head(decls), tables) \o LeftFilters(Tail(decls), tables)

RECURSIVE LeftExecuted(_)
LeftExecuted(decls) ==
    IF decls = <<>> THEN <<>>
    ELSE IF DeclFails(Head(decls))
         THEN (IF Ran(Head(decls)) THEN <<Head(decls).script>> ELSE <<>>)
         ELSE <<Head(decls).script>> \o LeftExecuted(Tail(decls))

\* C10: FilterSystem::load does not roll back: after a failed call the
\* system holds, after the filters it had, every filter appended before the
\* failure, and the scripts processed before it have run in the interpreter;
\* FilterRuntime::load leaves the caller no system, but the scripts have run.
C10_NoRollback ==
    /\ (IsSystemLoad /\ ~ret.ok) =>
           /\ filters = pre.filters \o LeftFilters(DeclsOf(config, iter.chains), iter.tables)
           /\ executed = pre.executed \o LeftExecuted(DeclsOf(config, iter.chains))
    /\ (IsRuntimeLoad /\ ~ret.ok) =>
           /\ filters = pre.filters
           /\ executed = pre.executed \o LeftExecuted(DeclsOf(config, iter.chains))

\* C10 witness: a load that failed to read its second script left the filter
\* of the first in the system and the first script executed.
C10_Witness ==
    /\ IsSystemLoad
    /\ ~ret.ok
    /\ ret.err = IoError
    /\ Len(filters) > Len(pre.filters)
    /\ Len(executed) > Len(pre.executed)

====
